---- MODULE Spec2Model ----
(***************************************************************************)
(* State-machine model of sheet_drive.py: the credential loader, the two   *)
(* Sheets helpers, the three Drive helpers and the demonstration main().   *)
(* A library function is modelled as a sequence of steps (credential       *)
(* resolution, client construction, the function's own statements), so     *)
(* that the order of its effects on the remote services and on the local   *)
(* disk is observable.  The remote services and the file system are the    *)
(* environment: a remote call either answers or raises.                    *)
(***************************************************************************)
EXTENDS Integers, Sequences, FiniteSets, TLC

\* ------------------------------------------------------------------ bounds
\* Largest remote file, in bytes, and the downloader's chunk size.
MaxSize == 3
ChunkSize == 1

\* ------------------------------------------------------- program constants
SPREADSHEET_ID == "YOUR_SPREADSHEET_ID"
RANGE == "Sheet1!A1:C10"
WRITE_RANGE == "Sheet1!A1:B3"
LOCAL_FILE == "example_upload.txt"
PLACEHOLDER_FILE_ID == "YOUR_FILE_ID"
DEST == "downloaded_example.txt"
write_values == << <<"Name", "Age">>, <<"Alice", "30">>, <<"Bob", "28">> >>

\* ------------------------------------------------------------ input samples
\* Value grids handed to write_sheet_values: the empty grid, main()'s grid,
\* and an irregular grid holding a formula.
GridSamples == { <<>>, write_values, << <<"=1+1">>, <<"x", "y">> >> }
Docs == {SPREADSHEET_ID}
Ranges == {RANGE, WRITE_RANGE}
InputOptions == {"RAW", "USER_ENTERED"}
\* State of the service-account key file at the path given to the loader.
KeyStates == {"missing", "malformed", "valid"}
\* Local paths given to upload_file_to_drive; only LOCAL_FILE can exist.
UploadPaths == {LOCAL_FILE, "missing.txt"}
\* Destination paths given to download_file_from_drive; only DEST lies in
\* a writable directory.
DestPaths == {DEST, "no_such_dir/out.bin"}
\* FILE_ID of main(): the placeholder, or an identifier substituted for it.
FileIdChoices == {PLACEHOLDER_FILE_ID, "FILE1"}

VARIABLES
  store,        \* remote spreadsheet: <<doc, range>> -> stored grid
  destFile,     \* local disk at DEST: [exists, data]
  localFile,    \* whether LOCAL_FILE exists on the local disk
  keyFile,      \* state of the key file on the local disk
  remoteSize,   \* size of the remote file being downloaded
  fn,           \* library function of the current invocation
  pc,           \* its position
  caller,       \* "top" or "main"
  args,         \* its arguments
  parsed,       \* the key file was parsed in this invocation
  remoteLog,    \* remote requests issued by this invocation, in order
  trace,        \* steps executed by this invocation, in order
  failure,      \* first exception raised in this invocation
  result,       \* what the invocation delivered to its caller
  response,     \* response of the "get values" request
  handle,       \* destination file handle: "none", "open", "closed"
  closeCount,   \* number of fh.close() calls
  progress,     \* bytes received so far by the downloader
  chunks,       \* number of next_chunk calls that returned
  reports,      \* progress lines printed by the downloader
  destBefore,   \* destFile when the invocation started
  prev,         \* the write the previous invocation completed, if any
  mpc,          \* position of main()
  mcreds,       \* main() holds credentials
  fileId,       \* FILE_ID of main()
  attempts,     \* steps main() attempted, in order
  out,          \* lines main() printed
  mainError     \* exception that left main()

envVars == <<store, destFile, localFile>>
invVars == <<fn, pc, caller, args, parsed, remoteLog, trace, failure, result,
             response, handle, closeCount, progress, chunks, reports,
             destBefore, prev>>
mainVars == <<mpc, mcreds, fileId, attempts, out, mainError>>
vars == <<envVars, keyFile, remoteSize, invVars, mainVars>>

\* ----------------------------------------------------------------- values
Addrs == Docs \X Ranges
NoArgs == [creds |-> FALSE, spreadsheet_id |-> "", range_name |-> "",
           values |-> <<>>, value_input_option |-> "RAW", file_path |-> "",
           file_id |-> "", destination_path |-> ""]
NoResult == [status |-> "none", value |-> "none"]
NoResponse == [hasValues |-> FALSE, values |-> <<>>]
NoWrite == [valid |-> FALSE, addr |-> <<"", "">>, values |-> <<>>,
            value_input_option |-> "RAW"]
NoFile == [exists |-> FALSE, data |-> <<>>]
OldFile == [exists |-> TRUE, data |-> <<0, 0>>]
Returned(v) == [status |-> "returned", value |-> v]
Raised(e) == [status |-> "raised", value |-> e]
Req(op, offset) == [op |-> op, offset |-> offset]
Min(a, b) == IF a < b THEN a ELSE b
\* Bytes lo+1 .. hi of the remote file, whose i-th byte is i.
RemoteBytes(lo, hi) == [i \in 1..(hi - lo) |-> lo + i]

\* ------------------------------------------------------- get_credentials
GetCredentialsNoCheck(k) ==
  IF k = "valid" THEN [ok |-> TRUE, parsed |-> TRUE, err |-> "none"]
  ELSE [ok |-> FALSE, parsed |-> TRUE, err |-> "KeyParseError"]

\* get_credentials(sa_file): the existence test, then the parse.
GetCredentials(k) ==
  IF k = "missing"
  THEN [ok |-> FALSE, parsed |-> FALSE, err |-> "ServiceAccountFileNotFound"]
  ELSE IF k = "valid" THEN [ok |-> TRUE, parsed |-> TRUE, err |-> "none"]
  ELSE [ok |-> FALSE, parsed |-> TRUE, err |-> "KeyParseError"]

\* ---------------------------------------------------------- control flow
StepAfterOpenFirst(f, s) ==
  CASE f = "get_credentials" -> (IF s = "entry" THEN "creds" ELSE "done")
    [] f \in {"read", "write", "metadata"} ->
         (CASE s = "entry" -> "creds" [] s = "creds" -> "build"
            [] s = "build" -> "call" [] OTHER -> "done")
    [] f = "upload" ->
         (CASE s = "entry" -> "creds" [] s = "creds" -> "build"
            [] s = "build" -> "media" [] s = "media" -> "call"
            [] OTHER -> "done")
    [] OTHER ->
         (CASE s = "entry" -> "open" [] s = "open" -> "creds"
            [] s = "creds" -> "build" [] s = "build" -> "loop"
            [] s = "loop" -> "close" [] OTHER -> "done")

\* The statement order of each library function: the step that follows
\* step s of function f when s succeeds.
StepAfter(f, s) ==
  CASE f = "get_credentials" -> (IF s = "entry" THEN "creds" ELSE "done")
    [] f \in {"read", "write", "metadata"} ->
         (CASE s = "entry" -> "creds" [] s = "creds" -> "build"
            [] s = "build" -> "call" [] OTHER -> "done")
    [] f = "upload" ->
         (CASE s = "entry" -> "creds" [] s = "creds" -> "build"
            [] s = "build" -> "media" [] s = "media" -> "call"
            [] OTHER -> "done")
    [] OTHER ->
         (CASE s = "entry" -> "creds" [] s = "creds" -> "build"
            [] s = "build" -> "open" [] s = "open" -> "loop"
            [] s = "loop" -> "close" [] OTHER -> "done")

AfterFailureRetry(s) == s

\* No library function has a try/except: an exception raised at step s
\* ends the invocation.
AfterFailure(s) == "done"

\* A step succeeded with value v: go on, or return v from the last step.
Continue(v) ==
  /\ pc' = StepAfter(fn, pc)
  /\ result' = IF StepAfter(fn, pc) = "done" THEN Returned(v) ELSE result
  /\ failure' = failure

\* A step raised e.
Raise(e) ==
  /\ pc' = AfterFailure(pc)
  /\ result' = IF AfterFailure(pc) = "done" THEN Raised(e) ELSE result
  /\ failure' = IF failure = "none" THEN e ELSE failure

\* Entry of library function f with arguments a, called by c.
Enter(f, a, c) ==
  /\ fn' = f
  /\ args' = a
  /\ caller' = c
  /\ pc' = StepAfter(f, "entry")
  /\ parsed' = FALSE
  /\ remoteLog' = <<>>
  /\ trace' = <<>>
  /\ failure' = "none"
  /\ result' = NoResult
  /\ response' = NoResponse
  /\ handle' = "none"
  /\ closeCount' = 0
  /\ progress' = 0
  /\ chunks' = 0
  /\ reports' = <<>>
  /\ destBefore' = destFile

\* No invocation is in progress.
Idle == pc = "idle" /\ mpc = "idle"

\* The frame of the last invocation is gone.
ClearFrame ==
  /\ fn' = "none" /\ pc' = "idle" /\ caller' = "top" /\ args' = NoArgs
  /\ parsed' = FALSE /\ remoteLog' = <<>> /\ trace' = <<>>
  /\ failure' = "none" /\ result' = NoResult /\ response' = NoResponse
  /\ handle' = "none" /\ closeCount' = 0 /\ progress' = 0 /\ chunks' = 0
  /\ reports' = <<>> /\ destBefore' = destFile
  /\ remoteSize' = 0

\* A call of library function f from outside the module.
Invoke(f, a) ==
  /\ Idle
  /\ Enter(f, a, "top")
  /\ \E k \in KeyStates : keyFile' = k
  /\ UNCHANGED <<envVars, mainVars, prev>>

\* The outside caller has received the result or the exception.
Return ==
  /\ pc = "done" /\ caller = "top"
  /\ ClearFrame
  /\ prev' = IF fn = "write" /\ result.status = "returned"
             THEN [valid |-> TRUE,
                   addr |-> <<args.spreadsheet_id, args.range_name>>,
                   values |-> args.values,
                   value_input_option |-> args.value_input_option]
             ELSE NoWrite
  /\ UNCHANGED <<envVars, keyFile, mainVars>>


\* ------------------------------------------------------ remote spreadsheet
\* USER_ENTERED lets the service parse a cell as a user would type it.
UserEntered(c) == IF c = "=1+1" THEN "2" ELSE c

\* What the service stores for a grid sent with the given input option.
Interpret(option, grid) ==
  IF option = "RAW" THEN grid
  ELSE [r \in 1..Len(grid) |->
          [c \in 1..Len(grid[r]) |-> UserEntered(grid[r][c])]]

\* The service's answer to "get values": no "values" key for an empty range.
StoreResponse(s, addr) ==
  IF s[addr] = <<>> THEN NoResponse
  ELSE [hasValues |-> TRUE, values |-> s[addr]]

RECURSIVE CellCount(_)
CellCount(grid) ==
  IF grid = <<>> THEN 0 ELSE Len(Head(grid)) + CellCount(Tail(grid))

ReadResultSkipsFirstRow(resp) ==
  IF resp.hasValues THEN Tail(resp.values) ELSE <<>>

\* result.get("values", [])
ReadResult(resp) == IF resp.hasValues THEN resp.values ELSE <<>>

WriteBodyReversed(values) ==
  [values |-> [i \in 1..Len(values) |-> values[Len(values) + 1 - i]]]

\* body = {"values": values}
WriteBody(values) == [values |-> values]

\* ------------------------------------------------------------ local disk
Exists(path) == path = LOCAL_FILE /\ localFile
Writable(path) == path = DEST

MediaFileUploadLazy(exists) == [ok |-> TRUE, err |-> "none"]

\* MediaFileUpload(file_path, ...) opens the local file when constructed.
MediaFileUpload(exists) ==
  IF exists THEN [ok |-> TRUE, err |-> "none"]
  ELSE [ok |-> FALSE, err |-> "LocalFileNotFound"]

\* -------------------------------------------------------- download loop
TruthyUnlessComplete(status) ==
  status.resumable_progress < status.total_size

\* "if status:" -- next_chunk returns a MediaDownloadProgress object, which
\* is always true.
Truthy(status) == TRUE

\* status.progress(): the completion fraction, as <<numerator, denominator>>;
\* 0.0 when the total size is zero.
Progress(status) ==
  IF status.total_size # 0
  THEN <<status.resumable_progress, status.total_size>>
  ELSE <<0, 1>>

\* int(status.progress() * 100)
Percent(status) == (Progress(status)[1] * 100) \div Progress(status)[2]

\* ------------------------------------------------- library function steps
InvokeGetCredentials ==
  /\ Invoke("get_credentials", NoArgs)
  /\ remoteSize' = 0

InvokeReadSheet ==
  /\ \E c \in BOOLEAN, d \in Docs, r \in Ranges :
       Invoke("read", [NoArgs EXCEPT !.creds = c, !.spreadsheet_id = d,
                                     !.range_name = r])
  /\ remoteSize' = 0

InvokeWriteSheet ==
  /\ \E c \in BOOLEAN, d \in Docs, r \in Ranges, g \in GridSamples,
        o \in InputOptions :
       Invoke("write", [NoArgs EXCEPT !.creds = c, !.spreadsheet_id = d,
                                      !.range_name = r, !.values = g,
                                      !.value_input_option = o])
  /\ remoteSize' = 0

InvokeUpload ==
  /\ \E c \in BOOLEAN, p \in UploadPaths :
       Invoke("upload", [NoArgs EXCEPT !.creds = c, !.file_path = p])
  /\ remoteSize' = 0

InvokeDownload ==
  /\ \E c \in BOOLEAN, p \in DestPaths :
       Invoke("download", [NoArgs EXCEPT !.creds = c, !.file_id = "FILE1",
                                         !.destination_path = p])
  /\ \E n \in 0..MaxSize : remoteSize' = n

InvokeMetadata ==
  /\ \E c \in BOOLEAN :
       Invoke("metadata", [NoArgs EXCEPT !.creds = c, !.file_id = "FILE1"])
  /\ remoteSize' = 0

\* creds = creds or get_credentials(); for get_credentials itself, its body.
ResolveCredentials ==
  /\ pc = "creds"
  /\ LET r == IF args.creds
              THEN [ok |-> TRUE, parsed |-> FALSE, err |-> "none"]
              ELSE GetCredentials(keyFile)
     IN /\ parsed' = r.parsed
        /\ IF r.ok THEN Continue("Credentials") ELSE Raise(r.err)
  /\ trace' = Append(trace, "creds")
  /\ UNCHANGED <<envVars, keyFile, remoteSize, mainVars, fn, caller, args,
                 remoteLog, response, handle, closeCount, progress, chunks,
                 reports, destBefore, prev>>

\* build(api, version, credentials=creds): constructs the client locally.
BuildService ==
  /\ pc = "build"
  /\ \E ok \in BOOLEAN : IF ok THEN Continue("Service") ELSE Raise("BuildError")
  /\ trace' = Append(trace, "build")
  /\ UNCHANGED <<envVars, keyFile, remoteSize, mainVars, fn, caller, args,
                 parsed, remoteLog, response, handle, closeCount, progress,
                 chunks, reports, destBefore, prev>>

\* sheet.values().get(...).execute(); return result.get("values", [])
SheetsGet ==
  /\ fn = "read" /\ pc = "call"
  /\ remoteLog' = Append(remoteLog, Req("sheets.values.get", 0))
  /\ trace' = Append(trace, "call")
  /\ \E ok \in BOOLEAN :
       IF ok
       THEN LET resp == StoreResponse(store,
                          <<args.spreadsheet_id, args.range_name>>)
            IN response' = resp /\ Continue(ReadResult(resp))
       ELSE response' = response /\ Raise("HttpError")
  /\ UNCHANGED <<envVars, keyFile, remoteSize, mainVars, fn, caller, args,
                 parsed, handle, closeCount, progress, chunks, reports,
                 destBefore, prev>>

\* service.spreadsheets().values().update(..., body=body).execute()
SheetsUpdate ==
  /\ fn = "write" /\ pc = "call"
  /\ remoteLog' = Append(remoteLog, Req("sheets.values.update", 0))
  /\ trace' = Append(trace, "call")
  /\ \E ok \in BOOLEAN :
       IF ok
       THEN LET body == WriteBody(args.values)
                kept == Interpret(args.value_input_option, body.values)
            IN /\ store' = [store EXCEPT
                    ![<<args.spreadsheet_id, args.range_name>>] = kept]
               /\ Continue([updatedCells |-> CellCount(kept)])
       ELSE store' = store /\ Raise("HttpError")
  /\ UNCHANGED <<destFile, localFile, keyFile, remoteSize, mainVars, fn,
                 caller, args, parsed, response, handle, closeCount, progress,
                 chunks, reports, destBefore, prev>>

\* file_metadata = ...; media = MediaFileUpload(file_path, ...)
OpenUploadMedia ==
  /\ fn = "upload" /\ pc = "media"
  /\ trace' = Append(trace, "media")
  /\ LET m == MediaFileUpload(Exists(args.file_path))
     IN IF m.ok THEN Continue("Media") ELSE Raise(m.err)
  /\ UNCHANGED <<envVars, keyFile, remoteSize, mainVars, fn, caller, args,
                 parsed, remoteLog, response, handle, closeCount, progress,
                 chunks, reports, destBefore, prev>>

\* drive_service.files().create(...).execute(); return file.get("id")
DriveCreate ==
  /\ fn = "upload" /\ pc = "call"
  /\ remoteLog' = Append(remoteLog, Req("drive.files.create", 0))
  /\ trace' = Append(trace, "call")
  /\ \E ok \in BOOLEAN :
       IF ok THEN Continue("NEW_FILE_ID") ELSE Raise("HttpError")
  /\ UNCHANGED <<envVars, keyFile, remoteSize, mainVars, fn, caller, args,
                 parsed, response, handle, closeCount, progress, chunks,
                 reports, destBefore, prev>>

\* drive_service.files().get(fileId=file_id, fields=...).execute()
DriveGetMetadata ==
  /\ fn = "metadata" /\ pc = "call"
  /\ remoteLog' = Append(remoteLog, Req("drive.files.get", 0))
  /\ trace' = Append(trace, "call")
  /\ \E ok \in BOOLEAN :
       IF ok THEN Continue([id |-> args.file_id]) ELSE Raise("HttpError")
  /\ UNCHANGED <<envVars, keyFile, remoteSize, mainVars, fn, caller, args,
                 parsed, response, handle, closeCount, progress, chunks,
                 reports, destBefore, prev>>

\* request = get_media(...); fh = io.FileIO(destination_path, mode="wb");
\* downloader = MediaIoBaseDownload(fh, request); done = False
OpenDestination ==
  /\ fn = "download" /\ pc = "open"
  /\ trace' = Append(trace, "open")
  /\ IF Writable(args.destination_path)
     THEN /\ destFile' = [exists |-> TRUE, data |-> <<>>]
          /\ handle' = "open"
          /\ Continue("Opened")
     ELSE /\ destFile' = destFile
          /\ handle' = handle
          /\ Raise("DestinationNotWritable")
  /\ UNCHANGED <<store, localFile, keyFile, remoteSize, mainVars, fn, caller,
                 args, parsed, remoteLog, response, closeCount, progress,
                 chunks, reports, destBefore, prev>>

\* One turn of the loop: status, done = downloader.next_chunk();
\* if status: print(...).  A fetched chunk is written through the
\* unbuffered handle before next_chunk returns.
NextChunk ==
  /\ fn = "download" /\ pc = "loop"
  /\ remoteLog' = Append(remoteLog, Req("drive.files.get_media", progress))
  /\ trace' = Append(trace, "chunk")
  /\ \E ok \in BOOLEAN :
       IF ok
       THEN LET got == progress + Min(ChunkSize, remoteSize - progress)
                status == [resumable_progress |-> got,
                           total_size |-> remoteSize]
                done == got = remoteSize
            IN /\ destFile' = IF handle = "open"
                              THEN [destFile EXCEPT !.data =
                                      destFile.data \o RemoteBytes(progress, got)]
                              ELSE destFile
               /\ progress' = got
               /\ chunks' = chunks + 1
               /\ reports' = IF Truthy(status)
                             THEN Append(reports,
                                    [fraction |-> Progress(status),
                                     percent |-> Percent(status)])
                             ELSE reports
               /\ pc' = IF done THEN StepAfter(fn, "loop") ELSE "loop"
               /\ UNCHANGED <<result, failure>>
       ELSE /\ Raise("HttpError")
            /\ UNCHANGED <<destFile, progress, chunks, reports>>
  /\ UNCHANGED <<store, localFile, keyFile, remoteSize, mainVars, fn, caller,
                 args, parsed, response, handle, closeCount, destBefore, prev>>

\* fh.close(); return destination_path
CloseDestination ==
  /\ fn = "download" /\ pc = "close"
  /\ trace' = Append(trace, "close")
  /\ handle' = "closed"
  /\ closeCount' = closeCount + 1
  /\ Continue(args.destination_path)
  /\ UNCHANGED <<envVars, keyFile, remoteSize, mainVars, fn, caller, args,
                 parsed, remoteLog, response, progress, chunks, reports,
                 destBefore, prev>>


\* ------------------------------------------------------------------ main
MainAfterStepNoCatch(step, raised) ==
  IF raised THEN "crashed"
  ELSE CASE step = "read" -> "write" [] step = "write" -> "prep"
         [] step = "upload" -> "download" [] OTHER -> "done"

\* Each step of main() is wrapped in try/except Exception: whether the
\* step returned or raised, main() goes on to the next one.
MainAfterStep(step, raised) ==
  CASE step = "read" -> "write" [] step = "write" -> "prep"
    [] step = "upload" -> "download" [] OTHER -> "done"

\* A call of a library function from main(), with main()'s credentials.
MainCall(step, f, a) ==
  /\ mpc = step
  /\ pc \in {"idle", "done"}
  /\ Enter(f, [a EXCEPT !.creds = TRUE], "main")
  /\ attempts' = Append(attempts, step)
  /\ mpc' = step \o "_wait"
  /\ UNCHANGED <<envVars, keyFile, mcreds, fileId, out, mainError, prev>>

\* The try block's print, or the except block's, after the call ended.
MainAfter(step, okLine, errLine) ==
  /\ mpc = step \o "_wait"
  /\ pc = "done"
  /\ out' = Append(out, IF result.status = "returned" THEN okLine ELSE errLine)
  /\ mpc' = MainAfterStep(step, result.status = "raised")
  /\ mainError' = IF mpc' = "crashed" THEN result.value ELSE mainError
  /\ UNCHANGED <<envVars, keyFile, remoteSize, invVars, mcreds, fileId,
                 attempts>>

InvokeMain ==
  /\ Idle
  /\ mpc' = "creds"
  /\ mcreds' = FALSE
  /\ attempts' = <<>>
  /\ out' = <<>>
  /\ mainError' = "none"
  /\ \E id \in FileIdChoices : fileId' = id
  /\ \E k \in KeyStates : keyFile' = k
  /\ prev' = NoWrite
  /\ UNCHANGED <<envVars, remoteSize, fn, pc, caller, args, parsed,
                 remoteLog, trace, failure, result, response, handle,
                 closeCount, progress, chunks, reports, destBefore>>

\* main() has returned, or an exception has ended the process.
MainExit ==
  /\ mpc \in {"done", "crashed"}
  /\ ClearFrame
  /\ mpc' = "idle"
  /\ mcreds' = FALSE
  /\ fileId' = PLACEHOLDER_FILE_ID
  /\ attempts' = <<>>
  /\ out' = <<>>
  /\ mainError' = "none"
  /\ UNCHANGED <<envVars, keyFile, prev>>

\* creds = get_credentials(), outside any try block.
MainGetCredentials ==
  /\ mpc = "creds"
  /\ LET r == GetCredentials(keyFile)
     IN /\ parsed' = r.parsed
        /\ mcreds' = r.ok
        /\ mpc' = IF r.ok THEN "read" ELSE "crashed"
        /\ mainError' = IF r.ok THEN mainError ELSE r.err
  /\ UNCHANGED <<envVars, keyFile, remoteSize, fn, pc, caller, args,
                 remoteLog, trace, failure, result, response, handle,
                 closeCount, progress, chunks, reports, destBefore, prev,
                 fileId, attempts, out>>

MainCallRead ==
  /\ MainCall("read", "read",
       [NoArgs EXCEPT !.spreadsheet_id = SPREADSHEET_ID, !.range_name = RANGE])
  /\ remoteSize' = 0

MainAfterRead == MainAfter("read", "Read values:", "Error reading sheet:")

MainCallWrite ==
  /\ MainCall("write", "write",
       [NoArgs EXCEPT !.spreadsheet_id = SPREADSHEET_ID,
                      !.range_name = WRITE_RANGE, !.values = write_values])
  /\ remoteSize' = 0

MainAfterWrite == MainAfter("write", "Write result:", "Error writing sheet:")

\* "create a tiny test file if it doesn't exist", outside any try block.
MainPrepareUpload ==
  /\ mpc = "prep"
  /\ \E ok \in BOOLEAN :
       IF localFile \/ ok
       THEN localFile' = TRUE /\ mpc' = "upload" /\ mainError' = mainError
       ELSE localFile' = FALSE /\ mpc' = "crashed" /\ mainError' = "OSError"
  /\ UNCHANGED <<store, destFile, keyFile, remoteSize, invVars, mcreds,
                 fileId, attempts, out>>

MainCallUpload ==
  /\ MainCall("upload", "upload", [NoArgs EXCEPT !.file_path = LOCAL_FILE])
  /\ remoteSize' = 0

MainAfterUpload ==
  MainAfter("upload", "Uploaded file ID:", "Error uploading file:")

\* if FILE_ID != "YOUR_FILE_ID": the download example
MainCallDownload ==
  /\ fileId # PLACEHOLDER_FILE_ID
  /\ MainCall("download", "download",
       [NoArgs EXCEPT !.file_id = fileId, !.destination_path = DEST])
  /\ \E n \in 0..MaxSize : remoteSize' = n

MainAfterDownload ==
  MainAfter("download", "Downloaded to:", "Error downloading file:")

\* else: print("Set FILE_ID to a real file id to test download.")
MainSkipDownload ==
  /\ mpc = "download"
  /\ fileId = PLACEHOLDER_FILE_ID
  /\ out' = Append(out, "Set FILE_ID to a real file id to test download.")
  /\ mpc' = "done"
  /\ UNCHANGED <<envVars, keyFile, remoteSize, invVars, mcreds, fileId,
                 attempts, mainError>>

\* ---------------------------------------------------------- specification
Init ==
  /\ store = [a \in Addrs |-> <<>>]
  /\ destFile \in {NoFile, OldFile}
  /\ localFile \in BOOLEAN
  /\ keyFile \in KeyStates
  /\ remoteSize = 0
  /\ fn = "none" /\ pc = "idle" /\ caller = "top" /\ args = NoArgs
  /\ parsed = FALSE /\ remoteLog = <<>> /\ trace = <<>>
  /\ failure = "none" /\ result = NoResult /\ response = NoResponse
  /\ handle = "none" /\ closeCount = 0 /\ progress = 0 /\ chunks = 0
  /\ reports = <<>> /\ destBefore = destFile /\ prev = NoWrite
  /\ mpc = "idle" /\ mcreds = FALSE /\ fileId = PLACEHOLDER_FILE_ID
  /\ attempts = <<>> /\ out = <<>> /\ mainError = "none"

Next ==
  \/ InvokeGetCredentials \/ InvokeReadSheet \/ InvokeWriteSheet
  \/ InvokeUpload \/ InvokeDownload \/ InvokeMetadata
  \/ ResolveCredentials \/ BuildService
  \/ SheetsGet \/ SheetsUpdate
  \/ OpenUploadMedia \/ DriveCreate \/ DriveGetMetadata
  \/ OpenDestination \/ NextChunk \/ CloseDestination
  \/ Return
  \/ InvokeMain \/ MainGetCredentials \/ MainExit
  \/ MainCallRead \/ MainAfterRead \/ MainCallWrite \/ MainAfterWrite
  \/ MainPrepareUpload \/ MainCallUpload \/ MainAfterUpload
  \/ MainCallDownload \/ MainAfterDownload \/ MainSkipDownload

Spec == Init /\ [][Next]_vars


\* ---------------------------------------------------------------- claims
Range(q) == {q[i] : i \in 1..Len(q)}
IsPrefix(p, q) == Len(p) <= Len(q) /\ SubSeq(q, 1, Len(p)) = p
MainEnded == mpc \in {"done", "crashed"}
CredentialErrors == {"ServiceAccountFileNotFound", "KeyParseError"}

\* C1: every invocation of download_file_from_drive that opened the
\* destination handle ends with the handle closed, exactly once, whether
\* the transfer completed or a chunk fetch failed.
C1_HandleClosedOnExit ==
  (fn = "download" /\ pc = "done" /\ handle # "none")
    => (handle = "closed" /\ closeCount = 1)

\* C2: main() never ends with an error propagated to the process, whatever
\* steps fail (credential loading included).
C2_MainExitsNormally == mpc # "crashed"

C4_AlwaysLocalFileNotFound ==
  (fn = "upload" /\ pc = "done" /\ ~Exists(args.file_path))
    => (result = Raised("LocalFileNotFound") /\ remoteLog = <<>>)

\* C4 as amended: an upload of a local path that does not exist issues no
\* remote request and fails; the failure is "local file not found" when the
\* credential was supplied or loaded and the client was constructed, and
\* otherwise it is the failure of get_credentials or of build.
C4_UploadOfMissingFile ==
  (fn = "upload" /\ ~Exists(args.file_path)) =>
    /\ remoteLog = <<>>
    /\ pc = "done" =>
         result = Raised(
           IF ~args.creds /\ ~GetCredentials(keyFile).ok
           THEN GetCredentials(keyFile).err
           ELSE IF trace = <<"creds", "build">> THEN "BuildError"
           ELSE "LocalFileNotFound")

C4_Witness ==
  /\ fn = "upload" /\ pc = "done" /\ ~Exists(args.file_path)
  /\ ~args.creds
  /\ trace = <<"creds", "build", "media">>
  /\ result = Raised("LocalFileNotFound")

\* C5: when the key file does not exist, get_credentials (called directly,
\* by a library function given no credential, or by main()) raises "file not
\* found" without parsing the key file, and no remote request is issued.
C5_MissingKeyFile ==
  /\ (fn # "none" /\ ~args.creds /\ keyFile = "missing"
        /\ "creds" \in Range(trace))
       => /\ pc = "done"
          /\ result = Raised("ServiceAccountFileNotFound")
          /\ ~parsed
          /\ remoteLog = <<>>
  /\ (mpc \notin {"idle", "creds"} /\ keyFile = "missing")
       => /\ mpc = "crashed"
          /\ mainError = "ServiceAccountFileNotFound"
          /\ ~parsed
          /\ remoteLog = <<>>

C5_Witness ==
  /\ fn = "get_credentials" /\ pc = "done" /\ keyFile = "missing"
  /\ result.status = "raised"

\* C6: a read that returns, made right after a successful RAW write to the
\* same document and range, returns the grid that was written.
C6_RoundTrip ==
  (/\ fn = "read" /\ pc = "done" /\ result.status = "returned"
   /\ prev.valid /\ prev.value_input_option = "RAW"
   /\ prev.addr = <<args.spreadsheet_id, args.range_name>>)
    => result.value = prev.values

C6_Witness ==
  /\ fn = "read" /\ pc = "done" /\ result.status = "returned"
  /\ prev.valid /\ prev.value_input_option = "RAW"
  /\ prev.addr = <<args.spreadsheet_id, args.range_name>>
  /\ prev.values = write_values
  /\ result.value = write_values

\* C7: the downloader prints one progress line per chunk fetched, the last
\* chunk included, and every fraction it reports lies in [0, 1].
C7_ProgressPerChunk ==
  fn = "download" =>
    /\ Len(reports) = chunks
    /\ \A i \in 1..Len(reports) :
         /\ reports[i].fraction[2] > 0
         /\ 0 <= reports[i].fraction[1]
         /\ reports[i].fraction[1] <= reports[i].fraction[2]
         /\ reports[i].percent \in 0..100

C7_Witness ==
  /\ fn = "download" /\ pc = "done" /\ result.status = "returned"
  /\ chunks >= 2 /\ Len(reports) = chunks
  /\ reports[Len(reports)].percent = 100

\* C8: once a step of a library function has failed, the invocation is
\* over with that failure delivered to its caller, and no invocation issues
\* the same remote request twice.
C8_NoRetryNoRecovery ==
  /\ \A i, j \in 1..Len(remoteLog) : i # j => remoteLog[i] # remoteLog[j]
  /\ failure # "none" => (pc = "done" /\ result = Raised(failure))
  /\ result.status = "raised" => failure = result.value

C8_Witness ==
  /\ fn = "download" /\ pc = "done" /\ failure = "HttpError"
  /\ Len(remoteLog) = 3
  /\ result = Raised("HttpError")

\* C9: read_sheet_values issues one "get values" request at most, exactly
\* one when it returns, and returns the response's grid unchanged, the
\* empty grid exactly when the response carries no values.
C9_ReadReturnsResponseGrid ==
  fn = "read" =>
    /\ Len(remoteLog) <= 1
    /\ (pc = "done" /\ result.status = "returned") =>
         /\ remoteLog = <<Req("sheets.values.get", 0)>>
         /\ response = StoreResponse(store,
                         <<args.spreadsheet_id, args.range_name>>)
         /\ response.hasValues => result.value = response.values
         /\ (result.value = <<>>) <=> ~response.hasValues

C9_Witness ==
  /\ fn = "read" /\ pc = "done" /\ result.status = "returned"
  /\ response.hasValues /\ Len(response.values) >= 2
  /\ result.value = response.values

\* C10: download_file_from_drive opens (creates or truncates) the
\* destination only after the credential and the client are there and
\* before the first chunk is requested; until then the destination is as it
\* was, afterwards it holds exactly the bytes received so far, and it is
\* never deleted.
C10_DownloadEffectOrder ==
  fn = "download" =>
    /\ handle # "none" => IsPrefix(<<"creds", "build", "open">>, trace)
    /\ remoteLog # <<>> => handle # "none"
    /\ handle = "none" => destFile = destBefore
    /\ failure \in CredentialErrors => destFile = destBefore
    /\ handle # "none" =>
         destFile = [exists |-> TRUE, data |-> RemoteBytes(0, progress)]
    /\ destBefore.exists => destFile.exists

C10_Witness ==
  /\ fn = "download" /\ pc = "done" /\ failure = "HttpError"
  /\ Len(remoteLog) = 1
  /\ destBefore = OldFile
  /\ destFile = [exists |-> TRUE, data |-> <<>>]

====
